---- MODULE Spec2Model ----
(***************************************************************************)
(* torchie.ipynb as a state machine: a fresh Python kernel in which the    *)
(* notebook's code cells are executed once each, in notebook order, one    *)
(* statement at a time.  A statement that reads an unbound name raises     *)
(* NameError; no cell holds a try/except, so an exception ends its cell.   *)
(* The framework (torch, torchvision) is modelled by what the calls used   *)
(* here do to the kernel's variables: which names they bind, which samples *)
(* a DataLoader yields, how .grad accumulates, what is written to and read *)
(* from model.pth.                                                         *)
(*                                                                         *)
(* The cell at lines 197-218 (class Net, net = Net()) has cell_type        *)
(* "markdown": the kernel never executes it, and no code cell imports      *)
(* torch.nn as nn, torch.optim as optim or torch.nn.functional as F.       *)
(***************************************************************************)
EXTENDS Integers, Sequences, FiniteSets, TLC

(* ------------------------------ bounds -------------------------------- *)
\* Samples in the custom dataset (100 in the source, line 174) and the
\* DataLoader's batch_size (32, line 177), scaled down so that every choice
\* of a shuffled batch can be enumerated; the last batch stays partial.
NumSamples == 5
BatchSize == 2
\* GPUs the machine may have: 0 (no CUDA), 1, or more than one.
MaxDevices == 2

(* ------------------------- program constants -------------------------- *)
Epochs == 5

\* The code cells, numbered in notebook order.
TensorBasicsCell == 1
TensorOpsCell == 2
CudaCell == 3
AutogradCell == 4
DataLoaderCell == 5
LossOptimCell == 6
TrainingCell == 7
EvaluationCell == 8
SaveLoadCell == 9
TransferCell == 10
AugmentationCell == 11
DistributedCell == 12
NumCells == 12

Cells == 1..NumCells
Samples == 1..NumSamples

\* A statement: its source line, what it does, the global names it reads (in
\* evaluation order), the names it binds, the statement executed next and,
\* for a branch or a loop head, the statement executed when the test fails
\* or the iterator is exhausted.  A next past the cell's last statement ends
\* the cell.
S(line, op, reads, binds, next, alt) ==
    [line |-> line, op |-> op, reads |-> reads, binds |-> binds,
     next |-> next, alt |-> alt]

Code(c) ==
    CASE c = TensorBasicsCell -> <<
           S(42, "import", <<>>, {"torch"}, 2, 0),
           S(44, "tensor_cpu", <<"torch">>, {"tensor"}, 3, 0),
           S(45, "print", <<"tensor">>, {}, 4, 0),
           S(46, "print", <<"tensor">>, {}, 5, 0),
           S(47, "print", <<"tensor">>, {}, 6, 0),
           S(48, "print", <<"tensor">>, {}, 7, 0) >>
      [] c = TensorOpsCell -> <<
           S(73, "tensor_cpu", <<"torch">>, {"tensor"}, 2, 0),
           S(74, "print", <<"tensor">>, {}, 3, 0),
           S(75, "print", <<"tensor">>, {}, 4, 0),
           S(76, "print", <<"torch", "tensor">>, {}, 5, 0) >>
      [] c = CudaCell -> <<
           S(101, "if_cuda", <<"torch">>, {}, 2, 5),
           S(102, "stmt", <<"torch">>, {"device"}, 3, 0),
           S(103, "to_device", <<"tensor", "device">>, {"tensor"}, 4, 0),
           S(104, "print", <<"tensor">>, {}, 6, 0),
           S(106, "print_no_cuda", <<>>, {}, 6, 0) >>
      [] c = AutogradCell -> <<
           S(132, "stmt", <<"torch">>, {"x"}, 2, 0),
           S(133, "stmt", <<"x">>, {"y"}, 3, 0),
           S(134, "stmt", <<"y">>, {"z"}, 4, 0),
           S(135, "stmt", <<"z">>, {}, 5, 0),
           S(136, "print", <<"x">>, {}, 6, 0) >>
      [] c = DataLoaderCell -> <<
           S(161, "import", <<>>, {"DataLoader", "Dataset"}, 2, 0),
           S(163, "stmt", <<"Dataset">>, {"CustomDataset"}, 3, 0),
           S(174, "stmt", <<"torch">>, {"data"}, 4, 0),
           S(175, "stmt", <<"torch">>, {"labels"}, 5, 0),
           S(176, "dataset_custom", <<"CustomDataset", "data", "labels">>,
             {"dataset"}, 6, 0),
           S(177, "dataloader", <<"DataLoader", "dataset">>,
             {"dataloader"}, 7, 0) >>
      [] c = LossOptimCell -> <<
           S(237, "stmt", <<"nn">>, {"criterion"}, 2, 0),
           S(238, "stmt", <<"optim", "net">>, {"optimizer"}, 3, 0) >>
      [] c = TrainingCell -> <<
           S(263, "for_range", <<>>, {"epoch"}, 2, 11),
           S(264, "stmt", <<>>, {"running_loss"}, 3, 0),
           S(265, "for_loader", <<"dataloader">>, {"inputs", "labels"}, 4, 10),
           S(266, "zero_grad", <<"optimizer">>, {}, 5, 0),
           S(267, "forward", <<"net", "inputs">>, {"outputs"}, 6, 0),
           S(268, "loss", <<"criterion", "outputs", "labels">>, {"loss"}, 7, 0),
           S(269, "backward", <<"loss">>, {}, 8, 0),
           S(270, "step", <<"optimizer">>, {}, 9, 0),
           S(271, "stmt", <<"running_loss", "loss">>, {"running_loss"}, 3, 0),
           S(272, "print", <<"epoch", "running_loss", "dataloader">>, {}, 1, 0) >>
      [] c = EvaluationCell -> <<
           S(297, "correct_0", <<>>, {"correct"}, 2, 0),
           S(298, "total_0", <<>>, {"total"}, 3, 0),
           S(299, "stmt", <<"torch">>, {}, 4, 0),
           S(300, "for_loader", <<"dataloader">>, {"inputs", "labels"}, 5, 9),
           S(301, "forward", <<"net", "inputs">>, {"outputs"}, 6, 0),
           S(302, "stmt", <<"torch", "outputs">>, {"_", "predicted"}, 7, 0),
           S(303, "add_total", <<"total", "labels">>, {"total"}, 8, 0),
           S(304, "add_correct", <<"correct", "predicted", "labels">>,
             {"correct"}, 4, 0),
           S(305, "print_accuracy", <<"correct", "total">>, {}, 10, 0) >>
      [] c = SaveLoadCell -> <<
           S(330, "save", <<"torch", "net">>, {}, 2, 0),
           S(331, "new_net", <<"Net">>, {"loaded_net"}, 3, 0),
           S(332, "load", <<"loaded_net", "torch">>, {}, 4, 0) >>
      [] c = TransferCell -> <<
           S(357, "import", <<>>, {"torchvision"}, 2, 0),
           S(359, "download", <<"torchvision">>, {"model"}, 3, 0),
           S(360, "stmt", <<"model">>, {"num_ftrs"}, 4, 0),
           S(361, "stmt", <<"nn", "num_ftrs", "model">>, {}, 5, 0),
           S(362, "print", <<"model">>, {}, 6, 0) >>
      [] c = AugmentationCell -> <<
           S(387, "import", <<>>, {"transforms"}, 2, 0),
           S(389, "stmt", <<"transforms">>, {"transform"}, 3, 0),
           S(395, "dataset_cifar", <<"torchvision", "transform">>,
             {"dataset"}, 4, 0) >>
      [] c = DistributedCell -> <<
           S(420, "if_multi_gpu", <<"torch">>, {}, 2, 4),
           S(421, "print", <<"torch">>, {}, 3, 0),
           S(422, "data_parallel", <<"nn", "net">>, {"net"}, 4, 0) >>


(* ------------------------------- state -------------------------------- *)
VARIABLES
    deviceCount,   \* torch.cuda.device_count() on this machine
    networkUp,     \* whether torchvision's downloads can be fetched
    cell,          \* the code cell being executed, or the next one to run
    pc,            \* statement of Code(cell) to execute next; 0: not running
    bound,         \* names bound in the kernel's global namespace
    raised,        \* per cell: the exception that ended it, or "none"
    raisedAt,      \* per cell: the source line that raised, or 0
    out,           \* per cell: what it printed
    hist,          \* per cell: source lines of the statements it completed
    tensorDev,     \* device of the tensor bound to `tensor`
    datasetKind,   \* the object bound to `dataset`
    iterActive,    \* a DataLoader iterator is open
    iterRemaining, \* samples the open iterator has not yielded yet
    batch,         \* samples of the batch bound to `inputs, labels`
    epoch,         \* iterations of `for epoch in range(5)` started
    grad,          \* batches whose gradients are summed in the parameters' .grad
    net,           \* the model bound to `net`: the updates applied, wrapping
    trainLog,      \* training cell: per batch yielded, the batch and the calls made on it
    epochLog,      \* training cell: batches yielded in the current epoch
    evalSeen,      \* samples the evaluation loop was given
    total,         \* Model Evaluation cell's `total`
    correct,       \* Model Evaluation cell's `correct`
    file,          \* model.pth
    loaded         \* the model bound to `loaded_net`

vars == <<deviceCount, networkUp, cell, pc, bound, raised, raisedAt, out, hist,
          tensorDev, datasetKind, iterActive, iterRemaining, batch, epoch,
          grad, net, trainLog, epochLog, evalSeen, total, correct, file, loaded>>

envVars == <<deviceCount, networkUp>>
loopVars == <<iterActive, iterRemaining, batch, epoch, trainLog, epochLog, evalSeen>>
modelVars == <<grad, net, total, correct, file, loaded, tensorDev, datasetKind>>

\* A Net as the kernel sees it: which construction drew its initial weights,
\* the gradient sums optimizer.step() has applied to them since, and whether
\* it is wrapped in nn.DataParallel (state_dict keys prefixed "module.").
NetValue(init, updates, wrapped) ==
    [init |-> init, updates |-> updates, wrapped |-> wrapped]

NoNet == NetValue("unbound", <<>>, FALSE)
NoFile == [exists |-> FALSE, keys |-> "none", init |-> "none", updates |-> <<>>]

\* state_dict(): the parameter tensors under their keys.
StateDict(m) ==
    [keys |-> IF m.wrapped THEN "module.fc" ELSE "fc",
     init |-> m.init, updates |-> m.updates]

Init ==
    /\ deviceCount \in 0..MaxDevices
    /\ networkUp \in BOOLEAN
    /\ cell = 1
    /\ pc = 0
    /\ bound = {}
    /\ raised = [c \in Cells |-> "none"]
    /\ raisedAt = [c \in Cells |-> 0]
    /\ out = [c \in Cells |-> <<>>]
    /\ hist = [c \in Cells |-> <<>>]
    /\ tensorDev = "none"
    /\ datasetKind = "none"
    /\ iterActive = FALSE
    /\ iterRemaining = {}
    /\ batch = {}
    /\ epoch = 0
    /\ grad = <<>>
    /\ net = NoNet
    /\ trainLog = <<>>
    /\ epochLog = <<>>
    /\ evalSeen = {}
    /\ total = 0
    /\ correct = 0
    /\ file = NoFile
    /\ loaded = NoNet

(* ---------------------------- the kernel ------------------------------ *)
Running == pc > 0 /\ cell \in Cells
Cur == Code(cell)[pc]

\* torch.cuda.is_available()
CudaAvailable == deviceCount > 0

\* Positions of the names a statement reads that are not bound.
Missing(s) == {i \in 1..Len(s.reads) : s.reads[i] \notin bound}

\* The exception executing statement s raises in the current state, "none"
\* when it completes.  Names are looked up before the call is made.
Exception(s) ==
    IF Missing(s) # {} THEN "NameError"
    ELSE IF s.op = "to_device" /\ ~CudaAvailable THEN "RuntimeError"
    ELSE IF s.op \in {"download", "dataset_cifar"} /\ ~networkUp THEN "URLError"
    ELSE IF s.op = "load" /\ ~file.exists THEN "FileNotFoundError"
    ELSE IF s.op = "load" /\ file.keys # StateDict(loaded).keys THEN "RuntimeError"
    ELSE IF s.op = "print_accuracy" /\ total = 0 THEN "ZeroDivisionError"
    ELSE "none"

ControlOps == {"if_cuda", "if_multi_gpu", "for_range", "for_loader"}

\* Control passes to statement p of the running cell, or the cell ends.
Goto(p) ==
    IF p > Len(Code(cell))
    THEN cell' = cell + 1 /\ pc' = 0
    ELSE cell' = cell /\ pc' = p

Completed(s) == hist' = [hist EXCEPT ![cell] = Append(@, s.line)]

\* What print(...) writes for statement s.
Printed(s) ==
    CASE s.op = "print_no_cuda" -> <<"CUDA not available">>
      [] s.op = "print_accuracy" -> <<"Accuracy">>
      [] s.op = "print" -> <<"value">>
      [] OTHER -> <<>>


\* The calls of the training loop's body, in the order the source makes them.
BodyCalls == <<"zero_grad", "forward", "loss", "backward", "step">>
IsBodyCall(op) == \E i \in 1..Len(BodyCalls) : BodyCalls[i] = op

\* The user runs the next code cell of the notebook.
RunCell ==
    /\ pc = 0
    /\ cell \in Cells
    /\ pc' = 1
    /\ UNCHANGED <<cell, bound, raised, raisedAt, out, hist>>
    /\ UNCHANGED <<envVars, loopVars, modelVars>>

\* The statement raises.  No cell has a handler: the exception leaves the
\* cell, the kernel reports it and the cell's remaining statements are not
\* executed; an open iterator is dropped with the frame.
RaiseStmt ==
    /\ Running
    /\ Exception(Cur) # "none"
    /\ raised' = [raised EXCEPT ![cell] = Exception(Cur)]
    /\ raisedAt' = [raisedAt EXCEPT ![cell] = Cur.line]
    /\ cell' = cell + 1
    /\ pc' = 0
    /\ iterActive' = FALSE
    /\ iterRemaining' = {}
    /\ UNCHANGED <<bound, out, hist, batch, epoch, trainLog, epochLog, evalSeen>>
    /\ UNCHANGED <<envVars, modelVars>>

\* A statement that is neither a branch nor a loop head completes.
ExecStmt ==
    /\ Running
    /\ Cur.op \notin ControlOps
    /\ Exception(Cur) = "none"
    /\ LET s == Cur IN
       /\ bound' = bound \cup s.binds
       /\ Completed(s)
       /\ out' = [out EXCEPT ![cell] = @ \o Printed(s)]
       /\ Goto(s.next)
       /\ tensorDev' = CASE s.op = "tensor_cpu" -> "cpu"
                         [] s.op = "to_device" -> "cuda"
                         [] OTHER -> tensorDev
       /\ datasetKind' = CASE s.op = "dataset_custom" -> "custom"
                           [] s.op = "dataset_cifar" -> "cifar10"
                           [] OTHER -> datasetKind
       /\ grad' = CASE s.op = "zero_grad" -> <<>>
                    [] s.op = "backward" -> Append(grad, batch)
                    [] OTHER -> grad
       /\ net' = CASE s.op = "step" -> [net EXCEPT !.updates = Append(@, grad)]
                   [] s.op = "data_parallel" -> [net EXCEPT !.wrapped = TRUE]
                   [] OTHER -> net
       /\ total' = CASE s.op = "total_0" -> 0
                     [] s.op = "add_total" -> total + Cardinality(batch)
                     [] OTHER -> total
       /\ \E k \in (IF s.op = "add_correct" THEN 0..Cardinality(batch) ELSE {0}) :
            correct' = CASE s.op = "correct_0" -> 0
                         [] s.op = "add_correct" -> correct + k
                         [] OTHER -> correct
       /\ file' = IF s.op = "save"
                  THEN [exists |-> TRUE] @@ StateDict(net)
                  ELSE file
       /\ loaded' = CASE s.op = "new_net" -> NetValue("loaded_net", <<>>, FALSE)
                      [] s.op = "load" ->
                           [loaded EXCEPT !.init = file.init,
                                          !.updates = file.updates]
                      [] OTHER -> loaded
       /\ trainLog' = IF cell = TrainingCell /\ IsBodyCall(s.op)
                      THEN [trainLog EXCEPT ![Len(trainLog)].calls = Append(@, s.op)]
                      ELSE trainLog
    /\ UNCHANGED <<raised, raisedAt, iterActive, iterRemaining, batch, epoch,
                   epochLog, evalSeen>>
    /\ UNCHANGED envVars

\* Test with the guards dropped: the bodies run whatever the machine has.
TestUnguarded(s) == TRUE

\* `if torch.cuda.is_available():` and `if torch.cuda.device_count() > 1:`.
Test(s) ==
    CASE s.op = "if_cuda" -> CudaAvailable
      [] s.op = "if_multi_gpu" -> deviceCount > 1

ExecIf ==
    /\ Running
    /\ Cur.op \in {"if_cuda", "if_multi_gpu"}
    /\ Exception(Cur) = "none"
    /\ Completed(Cur)
    /\ Goto(IF Test(Cur) THEN Cur.next ELSE Cur.alt)
    /\ UNCHANGED <<bound, raised, raisedAt, out>>
    /\ UNCHANGED <<envVars, loopVars, modelVars>>

\* `for epoch in range(5):` takes the next value of the range, or ends.
ExecForRange ==
    /\ Running
    /\ Cur.op = "for_range"
    /\ Exception(Cur) = "none"
    /\ Completed(Cur)
    /\ IF epoch < Epochs
       THEN /\ epoch' = epoch + 1
            /\ bound' = bound \cup Cur.binds
            /\ epochLog' = <<>>
            /\ Goto(Cur.next)
       ELSE /\ UNCHANGED <<epoch, bound, epochLog>>
            /\ Goto(Cur.alt)
    /\ UNCHANGED <<raised, raisedAt, out, iterActive, iterRemaining, batch,
                   trainLog, evalSeen>>
    /\ UNCHANGED <<envVars, modelVars>>

\* The batches DataLoader(dataset, batch_size, shuffle=True) may yield next
\* from the samples rem of its random permutation not yet yielded: any
\* batch_size of them, or all of them when fewer are left (no drop_last).
NextBatches(rem) ==
    {B \in SUBSET rem :
        Cardinality(B) = IF Cardinality(rem) < BatchSize
                         THEN Cardinality(rem) ELSE BatchSize}

\* `for inputs, labels in dataloader:` entering the loop opens an iterator
\* over a fresh permutation of the dataset the loader was built on; each
\* pass takes its next batch, and the loop ends when none is left.
ExecForLoader ==
    /\ Running
    /\ Cur.op = "for_loader"
    /\ Exception(Cur) = "none"
    /\ Completed(Cur)
    /\ LET rem == IF iterActive THEN iterRemaining ELSE Samples IN
       IF rem = {}
       THEN /\ iterActive' = FALSE
            /\ iterRemaining' = {}
            /\ Goto(Cur.alt)
            /\ UNCHANGED <<bound, batch, trainLog, epochLog, evalSeen>>
       ELSE \E B \in NextBatches(rem) :
            /\ iterActive' = TRUE
            /\ iterRemaining' = rem \ B
            /\ batch' = B
            /\ bound' = bound \cup Cur.binds
            /\ trainLog' = IF cell = TrainingCell
                           THEN Append(trainLog, [batch |-> B, calls |-> <<>>])
                           ELSE trainLog
            /\ epochLog' = IF cell = TrainingCell
                           THEN Append(epochLog, B) ELSE epochLog
            /\ evalSeen' = IF cell = EvaluationCell
                           THEN evalSeen \cup B ELSE evalSeen
            /\ Goto(Cur.next)
    /\ UNCHANGED <<raised, raisedAt, out, epoch>>
    /\ UNCHANGED <<envVars, modelVars>>

Next ==
    \/ RunCell
    \/ RaiseStmt
    \/ ExecStmt
    \/ ExecIf
    \/ ExecForRange
    \/ ExecForLoader

Spec == Init /\ [][Next]_vars


(* ------------------------------ claims -------------------------------- *)
Done(c) == cell > c

\* Batches one pass over the DataLoader yields: ceil(NumSamples / BatchSize).
BatchesPerEpoch == (NumSamples + BatchSize - 1) \div BatchSize

\* Samples the training loop was given.
TrainSeen == UNION {trainLog[i].batch : i \in 1..Len(trainLog)}

\* C1: every batch the training loop is given is processed by zero_grad,
\* forward, loss, backward, step, in that order, and every optimizer step
\* applies the gradient of exactly one batch, the current one.
C1_EveryBatchProcessedInOrder ==
    /\ \A i \in 1..Len(trainLog) :
         /\ \E n \in 0..Len(BodyCalls) : trainLog[i].calls = SubSeq(BodyCalls, 1, n)
         /\ (i < Len(trainLog) \/ Done(TrainingCell)) => trainLog[i].calls = BodyCalls
    /\ \A j \in 1..Len(net.updates) :
         /\ Len(net.updates[j]) = 1
         /\ j <= Len(trainLog) /\ net.updates[j][1] = trainLog[j].batch

\* C2: the Training Loop cell ends after exactly five epochs, each epoch
\* yielding every sample exactly once in batches of batch_size with one
\* partial last batch, so that it makes Epochs * BatchesPerEpoch optimizer
\* steps (5 * 4 = 20 in the source's sizes).
C2_TrainingRunsFiveEpochs ==
    Done(TrainingCell) =>
        /\ raised[TrainingCell] = "none"
        /\ epoch = Epochs
        /\ Len(epochLog) = BatchesPerEpoch
        /\ UNION {epochLog[i] : i \in 1..Len(epochLog)} = Samples
        /\ \A i, j \in 1..Len(epochLog) : i # j => epochLog[i] \cap epochLog[j] = {}
        /\ \A i \in 1..Len(epochLog) :
             i < Len(epochLog) => Cardinality(epochLog[i]) = BatchSize
        /\ Len(trainLog) = Epochs * BatchesPerEpoch
        /\ Len(net.updates) = Epochs * BatchesPerEpoch

\* C3: the samples the evaluation loop is given are disjoint from the samples
\* the training loop was given (evaluation on unseen data).
C3_EvaluatedDisjointFromTrained == evalSeen \cap TrainSeen = {}

\* C4: when the Saving and Loading cell has run, loaded_net is bound and its
\* state dictionary has the keys and the values of net's, and model.pth
\* holds that state dictionary.
C4_SaveLoadRoundTrip ==
    (cell = SaveLoadCell + 1 /\ pc = 0) =>
        /\ raised[SaveLoadCell] = "none"
        /\ "loaded_net" \in bound
        /\ file.exists
        /\ StateDict(loaded) = StateDict(net)
        /\ [exists |-> TRUE] @@ StateDict(net) = file

\* C5: executed once each in notebook order from a fresh kernel, no cell
\* reads an unbound name, and with its downloads available no cell raises.
C5_NoCellRaises ==
    /\ \A c \in Cells : raised[c] # "NameError"
    /\ networkUp => \A c \in Cells : raised[c] = "none"

\* C6 as stated: without a CUDA device the failure propagates from the
\* framework call and ends the CUDA Tensors cell, which takes no alternative
\* path of its own.
C6_MissingCudaPropagates ==
    (deviceCount = 0 /\ Done(CudaCell)) =>
        /\ raised[CudaCell] # "none"
        /\ out[CudaCell] # <<"CUDA not available">>

\* C6 as amended: whatever a statement raises is recorded as its cell's
\* exception and ends the cell there, nothing of the cell runs afterwards and
\* nothing is retried; but a missing CUDA device raises nothing: the CUDA
\* Tensors cell takes its else branch, prints "CUDA not available" and
\* completes, and the Distributed Training cell skips its body silently.
C6_OnlyCudaIsHandled ==
    /\ [](\A c \in Cells : raised[c] # "none" => Done(c) /\ raisedAt[c] # 0)
    /\ []((deviceCount = 0 /\ Done(CudaCell)) =>
            /\ raised[CudaCell] = "none"
            /\ hist[CudaCell] = <<101, 106>>
            /\ out[CudaCell] = <<"CUDA not available">>)
    /\ []((deviceCount = 0 /\ Done(DistributedCell)) =>
            /\ raised[DistributedCell] = "none"
            /\ hist[DistributedCell] = <<420>>
            /\ out[DistributedCell] = <<>>)
    /\ [][(Running /\ Exception(Cur) # "none") =>
            /\ raised'[cell] = Exception(Cur)
            /\ raisedAt'[cell] = Cur.line
            /\ cell' = cell + 1
            /\ hist' = hist /\ out' = out /\ bound' = bound]_vars
    /\ [][\A c \in Cells : raised[c] # "none" =>
            /\ raised'[c] = raised[c]
            /\ hist'[c] = hist[c]
            /\ out'[c] = out[c]]_vars

\* A machine without CUDA on which the whole notebook has been run: the CUDA
\* Tensors cell printed its message and completed, and cells further down
\* were ended by what their statements raised.
C6_Witness ==
    /\ deviceCount = 0
    /\ cell = NumCells + 1
    /\ out[CudaCell] = <<"CUDA not available">>
    /\ raised[CudaCell] = "none"
    /\ raised[SaveLoadCell] = "NameError"
    /\ raised[TransferCell] = "URLError"

\* C7: when the Distributed Training cell has run, net is a DataParallel
\* wrapper exactly when the device count is greater than 1, and with 0 or 1
\* devices the cell printed nothing and executed nothing but its test.
C7_WrappedExactlyWhenMultiGpu ==
    Done(DistributedCell) =>
        /\ net.wrapped <=> deviceCount > 1
        /\ deviceCount <= 1 =>
             /\ out[DistributedCell] = <<>>
             /\ hist[DistributedCell] = <<420>>
             /\ raised[DistributedCell] = "none"

\* C8: 0 <= correct <= total throughout and total counts every sample of the
\* batches given so far (line 303 adds the batch's size); when the loop has ended
\* total is the dataset size, the accuracy is printed without a division by
\* zero, and the model's parameters are those the loop started with.
C8_EvaluationCounts ==
    /\ 0 <= correct /\ correct <= total
    /\ total = Cardinality(evalSeen)
                - (IF cell = EvaluationCell /\ pc \in 5..7
                   THEN Cardinality(batch) ELSE 0)
    /\ Done(EvaluationCell) =>
         /\ total = NumSamples
         /\ evalSeen = Samples
         /\ raised[EvaluationCell] = "none"
         /\ out[EvaluationCell] = <<"Accuracy">>

====
